---- MODULE Spec2Model ----
(***************************************************************************)
(* Model of the USB support glue of sabios (mikanos_usb/cxx_src):          *)
(*   - usb/memory.cpp: the bump allocator (SetMemoryPool, AllocMem,        *)
(*     FreeMem) over the statics pool_base_ptr, memory_pool_size,          *)
(*     alloc_ptr;                                                          *)
(*   - usb/classdriver/keyboard.cpp: HIDKeyboardDriver;                    *)
(*   - sabios_support.cpp: the extern "C" bridge;                          *)
(*   - error.hpp: class Error.                                             *)
(* Addresses and sizes are unsigned words of WordBits bits; all arithmetic *)
(* on them wraps modulo 2^WordBits, as uintptr_t / size_t arithmetic does. *)
(***************************************************************************)
EXTENDS Integers, Sequences, FiniteSets, TLC

\* ------------------------------------------------------------------------
\* Bounds of the model
\* ------------------------------------------------------------------------
WordBits == 16          \* width of uintptr_t / size_t in the model
MaxCalls == 3           \* AllocMem / FreeMem calls followed after a configuration

Modulus == 2 ^ WordBits

\* nullptr
NULL == 0

\* ------------------------------------------------------------------------
\* usb/memory.cpp
\* ------------------------------------------------------------------------
VARIABLES
  pool_base_ptr,      \* uintptr_t pool_base_ptr
  memory_pool_size,   \* size_t memory_pool_size
  alloc_ptr,          \* uintptr_t alloc_ptr
  hist                \* the calls made since the last SetMemoryPool, with results

arenaVars == <<pool_base_ptr, memory_pool_size, alloc_ptr, hist>>

\* usb/classdriver/keyboard.cpp: one HIDKeyboardDriver
VARIABLES
  buf,              \* Buffer(): the report being processed
  prev_buf,         \* PreviousBuffer(): the report processed before it
  observers_,       \* observers_[0 .. ObserverCapacity-1], kept at indices 1..
  num_observers_,   \* int num_observers_
  oob_write,        \* TRUE once a subscription wrote outside observers_
  klog,             \* one entry per OnDataReceived: the buffers and the calls made
  subscribed,       \* the callbacks handed to SubscribeKeyPush, in call order
  default_observer  \* static HIDKeyboardDriver::default_observer

kbdVars == <<buf, prev_buf, observers_, num_observers_, oob_write, klog,
             subscribed, default_observer>>

\* sabios_support.cpp: cxx_xhci_controller_configure_connected_ports
VARIABLES
  port_pc,          \* "idle", "loop" (inside the for loop) or "returned"
  port_i,           \* int i
  max_ports,        \* xhc->MaxPorts()
  is_connected,     \* is_connected[i]: xhc->PortAt(i).IsConnected()
  port_log          \* what the call did so far, in order

portVars == <<port_pc, port_i, max_ports, is_connected, port_log>>

\* error.hpp: one Error object and the results of its accessors
VARIABLES
  err,              \* the Error: code_, line_, file_
  err_made_with,    \* the code handed to the constructor
  err_name          \* what Name() returned, "?" before the first call

errVars == <<err, err_made_with, err_name>>

\* sabios_support.cpp: the controller behind the bridge and the calls made
VARIABLES
  xhc_constructed,  \* the function-local static xhc of cxx_xhci_controller_new exists
  xhc_base,         \* the mmio base that xhc was constructed with
  lifecycle,        \* "Uninitialized", "Initialized", "Running" or "Failed"
  blog              \* one entry per bridge call: what it was given and returned

bridgeVars == <<xhc_constructed, xhc_base, lifecycle, blog>>

\* one HIDMouseDriver and the default observer of its class
VARIABLES
  mouse_default_observer,   \* static HIDMouseDriver::default_observer
  mouse_observers,          \* the observers of the driver, in subscription order
  mlog                      \* one entry per report: the report and the calls made

mouseVars == <<mouse_default_observer, mouse_observers, mlog>>

\* usb/memory.cpp: two callers inside AllocMem at the same time
VARIABLES
  rpc,              \* rpc[c]: the line of AllocMem caller c is at
  rreq,             \* rreq[c]: (size, alignment, boundary) of caller c
  rloc,             \* rloc[c]: the locals of caller c (next_boundary, p, the
                    \* value of alloc_ptr loaded last)
  rret,             \* rret[c]: what the call of caller c returned
  roverlap          \* TRUE when one call began while the other was running

raceVars == <<rpc, rreq, rloc, rret, roverlap>>


\* a + b in an unsigned word
Add(a, b) == (a + b) % Modulus

\* a & b on unsigned words
RECURSIVE BitAnd(_, _)
BitAnd(a, b) ==
  IF a = 0 \/ b = 0 THEN 0
  ELSE (IF a % 2 = 1 /\ b % 2 = 1 THEN 1 ELSE 0) + 2 * BitAnd(a \div 2, b \div 2)

\* a & ~static_cast<T>(m) on unsigned words: a with the bits of m cleared
AndNot(a, m) == a - BitAnd(a, m)

\* template <class T> T Ceil(T value, unsigned int alignment)
Ceil(value, alignment) ==
  AndNot((value + alignment - 1) % Modulus, alignment - 1)

\* AllocMem, lines 26-28: the offset after the alignment step
AlignStep(ptr, alignment) ==
  IF alignment > 0 THEN Ceil(ptr, alignment) ELSE ptr

\* AllocMem that has no boundary step
BoundaryStepNoSkip(ptr, size, boundary) == ptr

\* AllocMem whose boundary step advances the offset by one boundary
BoundaryStepAdvance(ptr, size, boundary) ==
  IF boundary > 0
  THEN LET next_boundary == Ceil(ptr, boundary)
       IN IF next_boundary < Add(ptr, size) THEN Add(ptr, boundary) ELSE ptr
  ELSE ptr

\* AllocMem, lines 29-34: the offset after the boundary step
BoundaryStep(ptr, size, boundary) ==
  IF boundary > 0
  THEN LET next_boundary == Ceil(ptr, boundary)
       IN IF next_boundary < Add(ptr, size) THEN next_boundary ELSE ptr
  ELSE ptr

\* AllocMem, lines 26-34: the adjusted offset the request is placed at
Adjusted(ptr, size, alignment, boundary) ==
  BoundaryStep(AlignStep(ptr, alignment), size, boundary)

\* AllocMem, line 36: the out-of-memory test
PoolExceeded(base, pool_size, ptr, size) ==
  Add(base, pool_size) < Add(ptr, size)

\* AllocMem: the value returned
AllocResult(base, pool_size, ptr, size, alignment, boundary) ==
  LET q == Adjusted(ptr, size, alignment, boundary)
  IN IF PoolExceeded(base, pool_size, q, size) THEN NULL ELSE q

\* AllocMem that returns the adjusted offset without advancing alloc_ptr by size
AllocNextNoAdvance(base, pool_size, ptr, size, alignment, boundary) ==
  Adjusted(ptr, size, alignment, boundary)

\* AllocMem: alloc_ptr after the call
AllocNext(base, pool_size, ptr, size, alignment, boundary) ==
  LET q == Adjusted(ptr, size, alignment, boundary)
  IN IF PoolExceeded(base, pool_size, q, size) THEN q ELSE Add(q, size)

\* FreeMem that gives the space from p on back to the arena
FreeNextRewind(ptr, p) == IF p # NULL /\ p < ptr THEN p ELSE ptr

\* FreeMem: alloc_ptr after the call (the body is empty)
FreeNext(ptr, p) == ptr

\* SetMemoryPool that sets alloc_ptr only on the first configuration
PoolAfterSetKeepOffset(pool_ptr, pool_size, old_alloc_ptr) ==
  [base |-> pool_ptr, size |-> pool_size,
   ptr |-> IF old_alloc_ptr = 0 THEN pool_ptr ELSE old_alloc_ptr]

\* SetMemoryPool: the three statics after the call
PoolAfterSet(pool_ptr, pool_size, old_alloc_ptr) ==
  [base |-> pool_ptr, size |-> pool_size, ptr |-> pool_ptr]

\* The calls the model makes: (size, alignment, boundary) of AllocMem
Requests ==
  { <<16, 16, 0>>, <<10, 4, 0>>, <<250, 1, 0>>,   \* small objects
    <<0, 1, 0>>,                                  \* an empty request
    <<72, 0, 0>>,                                 \* operator new: no alignment
    <<56, 8, 64>>,                                \* a buffer that must not cross a boundary
    <<16, 64, 16>>,                               \* alignment larger than the boundary
    <<32, 16, 48>>,                               \* a boundary that is no power of two
    <<16, 512, 0>>,                               \* alignment larger than the pool
    <<Modulus - 16, 1, 0>> }                      \* a size near the top of size_t

\* (pool_ptr, pool_size) of SetMemoryPool
Pools == { <<4096, 256>>, <<8192, 64>> }

\* One entry of hist
Event(op, p, size, alignment, boundary, ret, was) ==
  [op |-> op, p |-> p, size |-> size, alignment |-> alignment,
   boundary |-> boundary, ret |-> ret, was |-> was]

Configured == hist # <<>> /\ hist[1].op = "SetMemoryPool"

\* The AllocMem and FreeMem calls of hist
Calls == SelectSeq(hist, LAMBDA e : e.op # "SetMemoryPool")

\* How the arena stood when SetMemoryPool was called
ArenaClass ==
  IF ~Configured THEN "unconfigured"
  ELSE IF alloc_ptr = pool_base_ptr THEN "fresh"
  ELSE IF \E i \in 1..Len(hist) : hist[i].op = "AllocMem" /\ hist[i].ret = NULL
       THEN "exhausted"
  ELSE "used"

ArenaInit ==
  /\ pool_base_ptr = 0
  /\ memory_pool_size = 0
  /\ alloc_ptr = 0
  /\ hist = <<>>

SetMemoryPool(pool_ptr, pool_size) ==
  LET s == PoolAfterSet(pool_ptr, pool_size, alloc_ptr)
  IN /\ pool_base_ptr' = s.base
     /\ alloc_ptr' = s.ptr
     /\ memory_pool_size' = s.size
     /\ hist' = <<Event("SetMemoryPool", pool_ptr, pool_size, 0, 0, 0, ArenaClass)>>
     /\ UNCHANGED <<kbdVars, portVars, errVars, bridgeVars, mouseVars, raceVars>>

AllocMem(size, alignment, boundary) ==
  /\ Len(Calls) < MaxCalls
  /\ alloc_ptr' = AllocNext(pool_base_ptr, memory_pool_size, alloc_ptr,
                            size, alignment, boundary)
  /\ hist' = Append(hist,
       Event("AllocMem", 0, size, alignment, boundary,
             AllocResult(pool_base_ptr, memory_pool_size, alloc_ptr,
                         size, alignment, boundary),
             alloc_ptr))
  /\ UNCHANGED <<pool_base_ptr, memory_pool_size>>
  /\ UNCHANGED <<kbdVars, portVars, errVars, bridgeVars, mouseVars, raceVars>>

FreeMem(p) ==
  /\ Len(Calls) < MaxCalls
  /\ alloc_ptr' = FreeNext(alloc_ptr, p)
  /\ hist' = Append(hist, Event("FreeMem", p, 0, 0, 0, 0, alloc_ptr))
  /\ UNCHANGED <<pool_base_ptr, memory_pool_size>>
  /\ UNCHANGED <<kbdVars, portVars, errVars, bridgeVars, mouseVars, raceVars>>

\* The pointers handed to FreeMem: null, and the address the last AllocMem
\* returned or, when the last call was none, the pool base
FreePtrs ==
  {NULL} \cup
  (IF hist # <<>> /\ hist[Len(hist)].op = "AllocMem"
   THEN {hist[Len(hist)].ret} ELSE {pool_base_ptr})

ArenaNext ==
  \/ \E c \in Pools : SetMemoryPool(c[1], c[2])
  \/ \E r \in Requests : AllocMem(r[1], r[2], r[3])
  \/ \E p \in FreePtrs : FreeMem(p)

\* ------------------------------------------------------------------------
\* usb/classdriver/keyboard.cpp
\* ------------------------------------------------------------------------
\* Length of the keyboard's report: HIDBaseDriver{dev, interface_index, 8}
ReportLen == 8

\* Number of elements of the observers_ array of HIDKeyboardDriver
ObserverCapacity == 4

MaxReports == 3         \* reports fed to one driver

\* The callback handed to the k-th SubscribeKeyPush call (k >= 1); 0 stands
\* for an empty std::function and -1 for memory that holds no callable
Observer(k) == k

\* What a call through a slot past the end of observers_ can reach: the
\* callback the overflowing subscription wrote, or no callable at all
StrayCallees == {Observer(ObserverCapacity + 1), -1}

\* A report: modifier, reserved byte, six key bytes
Report(modifier, reserved, k2, k3, k4, k5, k6, k7) ==
  <<modifier, reserved, k2, k3, k4, k5, k6, k7>>

\* The reports the model feeds
Reports ==
  { Report(0, 0, 0, 0, 0, 0, 0, 0),     \* nothing pressed
    Report(0, 0, 4, 0, 0, 0, 0, 0),     \* key 4
    Report(2, 4, 4, 0, 0, 0, 0, 0),     \* key 4, other modifier and reserved byte
    Report(0, 0, 4, 0, 0, 0, 0, 5),     \* keys 4 and 5, 5 in the last byte
    Report(0, 0, 5, 0, 0, 0, 0, 4),     \* the same keys in the other order
    Report(0, 0, 1, 1, 1, 1, 1, 1) }    \* ErrorRollOver: one value in every key byte

\* b[i] of a byte buffer, i counted from 0 as in the source
Byte(b, i) == b[i + 1]

\* std::find(prev_buf.begin() + 2, prev_buf.end(), key) != prev_buf.end()
FoundInPrevious(prev, key) == \E j \in 2..(ReportLen - 1) : Byte(prev, j) = key

\* OnDataReceived that compares each key byte with the byte at the same
\* position of the previous report
NewlyPressedPositional(cur, prev, i) ==
  Byte(cur, i) # 0 /\ Byte(cur, i) # Byte(prev, i)

\* OnDataReceived, lines 14-21: byte i of the report is a newly pressed key
NewlyPressed(cur, prev, i) ==
  Byte(cur, i) # 0 /\ ~FoundInPrevious(prev, Byte(cur, i))

\* observers_[i] as the call in NotifyKeyPush finds it
Callee(obs, i, stray) == IF i < ObserverCapacity THEN obs[i + 1] ELSE stray

\* NotifyKeyPush: the calls made, in order
NotifyKeyPush(obs, n, stray, modifier, keycode) ==
  [k \in 1..n |-> [slot |-> k - 1, f |-> Callee(obs, k - 1, stray),
                   modifier |-> modifier, keycode |-> keycode]]

\* OnDataReceived: the calls made by the loop from byte i on, in order
RECURSIVE OnDataReceivedFrom(_, _, _, _, _, _)
OnDataReceivedFrom(cur, prev, obs, n, stray, i) ==
  IF i >= ReportLen THEN <<>>
  ELSE (IF NewlyPressed(cur, prev, i)
        THEN NotifyKeyPush(obs, n, stray, Byte(cur, 0), Byte(cur, i))
        ELSE <<>>)
       \o OnDataReceivedFrom(cur, prev, obs, n, stray, i + 1)

\* OnDataReceived: the calls made
OnDataReceived(cur, prev, obs, n, stray) ==
  OnDataReceivedFrom(cur, prev, obs, n, stray, 2)

\* SubscribeKeyPush: num_observers_ after the call when the slot is in the array
CountAfterSubscribe(n) == n + 1

\* num_observers_ after a write past the end of observers_: the incremented
\* count, or what the write left in the member that follows the array
CountAfterOverflow == {0, ObserverCapacity + 1}

KbdInit ==
  /\ buf = [i \in 1..ReportLen |-> 0]
  /\ prev_buf = [i \in 1..ReportLen |-> 0]
  /\ observers_ = [i \in 1..ObserverCapacity |-> 0]   \* std::function{}
  /\ num_observers_ = 0
  /\ oob_write = FALSE
  /\ klog = <<>>
  /\ subscribed = <<>>
  /\ default_observer = 0                              \* std::function{}

SubscribeKeyPush(observer) ==
  /\ ~oob_write      \* calls are followed up to the first write outside the array
  /\ IF num_observers_ < ObserverCapacity
     THEN /\ observers_' = [observers_ EXCEPT ![num_observers_ + 1] = observer]
          /\ num_observers_' = CountAfterSubscribe(num_observers_)
          /\ UNCHANGED oob_write
     ELSE /\ oob_write' = TRUE
          /\ num_observers_' \in CountAfterOverflow
          /\ UNCHANGED observers_
  /\ subscribed' = Append(subscribed, observer)
  /\ UNCHANGED <<buf, prev_buf, klog, default_observer>>
  /\ UNCHANGED <<arenaVars, portVars, errVars, bridgeVars, mouseVars, raceVars>>

\* A completed interrupt-in transfer: the report is in Buffer(), OnDataReceived
\* runs, then the report becomes the previous buffer
OnInterruptCompleted(report, stray) ==
  /\ Len(klog) < MaxReports
  /\ buf' = report
  /\ prev_buf' = report
  /\ klog' = Append(klog,
       [report |-> report, prev |-> prev_buf, n |-> num_observers_,
        calls |-> OnDataReceived(report, prev_buf, observers_, num_observers_, stray),
        ret |-> "kSuccess",
        subscribed |-> subscribed, default |-> default_observer])
  /\ UNCHANGED <<observers_, num_observers_, oob_write, subscribed, default_observer>>
  /\ UNCHANGED <<arenaVars, portVars, errVars, bridgeVars, mouseVars, raceVars>>

KeyboardNext ==
  \/ SubscribeKeyPush(Observer(num_observers_ + 1))
  \/ \E r \in Reports :
       \E stray \in (IF num_observers_ > ObserverCapacity
                     THEN StrayCallees ELSE {-1}) :
         OnInterruptCompleted(r, stray)

\* The callback the kernel registers as the default observer
KernelObserver == Observer(ObserverCapacity + 2)

\* cxx_xhci_hid_keyboard_driver_set_default_observer(observer)
SetDefaultObserver(observer) ==
  /\ default_observer' = observer
  /\ UNCHANGED <<buf, prev_buf, observers_, num_observers_, oob_write, klog,
                 subscribed>>
  /\ UNCHANGED <<arenaVars, portVars, errVars, bridgeVars, mouseVars, raceVars>>

\* A keyboard is attached: a new HIDKeyboardDriver takes the place of the
\* modelled one, and the default observer registered by then is subscribed
\* to it
NewClassDriver ==
  /\ buf' = [i \in 1..ReportLen |-> 0]
  /\ prev_buf' = [i \in 1..ReportLen |-> 0]
  /\ oob_write' = FALSE
  /\ klog' = <<>>
  /\ IF default_observer # 0
     THEN /\ observers_' = [i \in 1..ObserverCapacity |->
                              IF i = 1 THEN default_observer ELSE 0]
          /\ num_observers_' = CountAfterSubscribe(0)
          /\ subscribed' = <<default_observer>>
     ELSE /\ observers_' = [i \in 1..ObserverCapacity |-> 0]
          /\ num_observers_' = 0
          /\ subscribed' = <<>>
  /\ UNCHANGED default_observer
  /\ UNCHANGED <<arenaVars, portVars, errVars, bridgeVars, mouseVars, raceVars>>

\* The kernel registers its observer, keyboards are attached, reports arrive
DefaultObserverNext ==
  \/ SetDefaultObserver(KernelObserver)
  \/ NewClassDriver
  \/ \E r \in Reports : OnInterruptCompleted(r, -1)

\* ------------------------------------------------------------------------
\* error.hpp
\* ------------------------------------------------------------------------
\* enum Error::Code
kSuccess == 0
kLastOfCode == 16

\* Every enumerator of Error::Code, kLastOfCode included
Codes == kSuccess..kLastOfCode

\* static constexpr std::array code_names_
code_names_ ==
  << "kSuccess", "kNoEnoughMemory", "kInvalidSlotID", "kInvalidEndpointNumber",
     "kTransferRingNotSet", "kAlreadyAllocated", "kNotImplemented",
     "kInvalidDescriptor", "kBufferTooSmall", "kUnknownDevice",
     "kNoCorrespondingSetupStage", "kTransferFailed", "kInvalidPhase",
     "kUnknownXHCISpeedID", "kNoWaiter", "kEndpointNotInCharge" >>

\* Error(Code code, const char *file, int line)
Error(code, file, line) == [code_ |-> code, line_ |-> line, file_ |-> file]

\* Code Cause() const
Cause(e) == e.code_

\* operator bool() const
ErrorBool(e) == e.code_ # kSuccess

\* const char *Name() const: everything the call can return. An index past
\* the end of code_names_ reads whatever follows the array: an empty string
\* or bytes that are no name
Name(e) ==
  IF e.code_ < Len(code_names_) THEN {code_names_[e.code_ + 1]}
  ELSE {"", "<bytes past code_names_>"}

\* The places MAKE_ERROR is used at
ErrorFiles == {"keyboard.cpp", "xhci.cpp"}
ErrorLines == {24, 100, 101}

ErrInit ==
  /\ err = Error(kSuccess, "keyboard.cpp", 24)
  /\ err_made_with = kSuccess
  /\ err_name = "?"

\* MAKE_ERROR(code)
MakeError(code, file, line) ==
  /\ err' = Error(code, file, line)
  /\ err_made_with' = code
  /\ err_name' = "?"
  /\ UNCHANGED <<arenaVars, kbdVars, portVars, bridgeVars, mouseVars, raceVars>>

\* err.Name()
CallName ==
  /\ err_name = "?"
  /\ err_name' \in Name(err)
  /\ UNCHANGED <<err, err_made_with>>
  /\ UNCHANGED <<arenaVars, kbdVars, portVars, bridgeVars, mouseVars, raceVars>>

ErrorNext ==
  \/ \E c \in Codes, f \in ErrorFiles, l \in ErrorLines : MakeError(c, f, l)
  \/ CallName

\* ------------------------------------------------------------------------
\* sabios_support.cpp: cxx_xhci_controller_configure_connected_ports
\* ------------------------------------------------------------------------
MaxPortsBound == 3      \* largest MaxPorts() of a controller

\* What ConfigurePort(*xhc, port) can return: an Error with one of the codes
ConfigurePortResults == kSuccess..(kLastOfCode - 1)

\* The loop variable after the iteration for port i
NextPortIndexBreak(i, n, failed) == IF failed THEN n + 1 ELSE i + 1

\* The loop variable after the iteration for port i: i++, also after `continue`
NextPortIndex(i, n, failed) == i + 1

\* What one iteration does for port i, in order; code is what ConfigurePort returns
Iteration(i, conn, code) ==
  <<[what |-> "Log kDebug", port |-> i, arg |-> IF conn THEN "1" ELSE "0"]>>
  \o (IF conn
      THEN <<[what |-> "ConfigurePort", port |-> i, arg |-> code_names_[code + 1]]>>
           \o (IF ErrorBool(Error(code, "xhci.cpp", 100))
               THEN <<[what |-> "Log kError", port |-> i, arg |-> code_names_[code + 1]]>>
               ELSE <<>>)
      ELSE <<>>)

PortsInit ==
  /\ port_pc = "idle"
  /\ port_i = 0
  /\ max_ports = 0
  /\ is_connected = <<>>
  /\ port_log = <<>>

\* The call, on a controller with n ports connected as conn says
ConfigureConnectedPortsCall(n, conn) ==
  /\ port_pc \in {"idle", "returned"}
  /\ max_ports' = n
  /\ is_connected' = conn
  /\ port_i' = 1
  /\ port_pc' = "loop"
  /\ port_log' = <<>>
  /\ UNCHANGED <<arenaVars, kbdVars, errVars, bridgeVars, mouseVars, raceVars>>

\* One iteration of the for loop
ConfigureConnectedPortsIteration(code) ==
  /\ port_pc = "loop"
  /\ port_i <= max_ports
  /\ port_log' = port_log \o Iteration(port_i, is_connected[port_i], code)
  /\ port_i' = NextPortIndex(port_i, max_ports,
                             is_connected[port_i] /\ ErrorBool(Error(code, "xhci.cpp", 100)))
  /\ UNCHANGED <<port_pc, max_ports, is_connected>>
  /\ UNCHANGED <<arenaVars, kbdVars, errVars, bridgeVars, mouseVars, raceVars>>

\* The loop condition fails and the function returns
ConfigureConnectedPortsReturn ==
  /\ port_pc = "loop"
  /\ ~(port_i <= max_ports)
  /\ port_pc' = "returned"
  /\ UNCHANGED <<port_i, max_ports, is_connected, port_log>>
  /\ UNCHANGED <<arenaVars, kbdVars, errVars, bridgeVars, mouseVars, raceVars>>

PortsNext ==
  \/ \E n \in 0..MaxPortsBound :
       \E conn \in [1..n -> BOOLEAN] : ConfigureConnectedPortsCall(n, conn)
  \/ \E code \in (IF port_pc = "loop" /\ port_i <= max_ports /\ is_connected[port_i]
                  THEN ConfigurePortResults ELSE {kSuccess}) :
       ConfigureConnectedPortsIteration(code)
  \/ ConfigureConnectedPortsReturn

\* ------------------------------------------------------------------------
\* sabios_support.cpp: the controller bridge
\* ------------------------------------------------------------------------
MaxBridgeCalls == 4     \* bridge calls followed

kNoEnoughMemory == 1

\* The mmio bases handed to cxx_xhci_controller_new
MmioBases == {40960, 45056}

\* What Initialize(), Run() and ProcessEvent() of the controller can return
ControllerResults == {kSuccess, kNoEnoughMemory}

\* cxx_xhci_controller_new: the base of the controller behind the returned
\* handle; the static is constructed by the first call only
BaseOfHandle(constructed, base, xhc_mmio_base) ==
  IF constructed THEN base ELSE xhc_mmio_base

\* The lifecycle after Initialize() returned code
AfterInitialize(state, code) ==
  IF code = kSuccess THEN "Initialized" ELSE "Failed"

\* The lifecycle after Run() returned code
AfterRun(state, code) ==
  IF code = kSuccess THEN "Running" ELSE "Failed"

\* One entry of blog: the call, its argument, what the controller's method
\* returned, what the bridge function returned to its caller, the base of
\* the controller behind the handle, whether the call constructed xhc, and
\* the lifecycle before and after the call
BridgeCall(call, arg, result, returned, handle, constructs, before, after) ==
  [call |-> call, arg |-> arg, result |-> result, returned |-> returned,
   handle |-> handle, constructs |-> constructs,
   before |-> before, after |-> after]

BridgeInit ==
  /\ xhc_constructed = FALSE
  /\ xhc_base = 0
  /\ lifecycle = "Uninitialized"
  /\ blog = <<>>

cxx_xhci_controller_new(xhc_mmio_base) ==
  /\ Len(blog) < MaxBridgeCalls
  /\ xhc_constructed' = TRUE
  /\ xhc_base' = BaseOfHandle(xhc_constructed, xhc_base, xhc_mmio_base)
  /\ blog' = Append(blog,
       BridgeCall("new", xhc_mmio_base, "", "handle",
                  BaseOfHandle(xhc_constructed, xhc_base, xhc_mmio_base),
                  ~xhc_constructed, lifecycle, lifecycle))
  /\ UNCHANGED lifecycle
  /\ UNCHANGED <<arenaVars, kbdVars, portVars, errVars, mouseVars, raceVars>>

\* xhc->Initialize() returns code; the bridge function returns void
cxx_xhci_controller_initialize(code) ==
  /\ Len(blog) < MaxBridgeCalls
  /\ xhc_constructed
  /\ lifecycle' = AfterInitialize(lifecycle, code)
  /\ blog' = Append(blog,
       BridgeCall("initialize", 0, code_names_[code + 1], "void", xhc_base,
                  FALSE, lifecycle, AfterInitialize(lifecycle, code)))
  /\ UNCHANGED <<xhc_constructed, xhc_base>>
  /\ UNCHANGED <<arenaVars, kbdVars, portVars, errVars, mouseVars, raceVars>>

\* xhc->Run() returns code; the bridge function returns err.Cause(). The
\* kernel calls it after cxx_xhci_controller_initialize
cxx_xhci_controller_run(code) ==
  /\ Len(blog) < MaxBridgeCalls
  /\ xhc_constructed
  /\ lifecycle # "Uninitialized"
  /\ lifecycle' = AfterRun(lifecycle, code)
  /\ blog' = Append(blog,
       BridgeCall("run", 0, code_names_[code + 1],
                  code_names_[Cause(Error(code, "xhci.cpp", 100)) + 1],
                  xhc_base, FALSE, lifecycle, AfterRun(lifecycle, code)))
  /\ UNCHANGED <<xhc_constructed, xhc_base>>
  /\ UNCHANGED <<arenaVars, kbdVars, portVars, errVars, mouseVars, raceVars>>

\* ProcessEvent(*xhc) returns code; the bridge function returns err.Cause()
cxx_xhci_controller_process_event(code) ==
  /\ Len(blog) < MaxBridgeCalls
  /\ xhc_constructed
  /\ lifecycle # "Uninitialized"
  /\ blog' = Append(blog,
       BridgeCall("process_event", 0, code_names_[code + 1],
                  code_names_[Cause(Error(code, "xhci.cpp", 101)) + 1],
                  xhc_base, FALSE, lifecycle, lifecycle))
  /\ UNCHANGED <<xhc_constructed, xhc_base, lifecycle>>
  /\ UNCHANGED <<arenaVars, kbdVars, portVars, errVars, mouseVars, raceVars>>

\* xhc->PrimaryEventRing()->HasFront() is front; the bridge function returns it
cxx_xhci_controller_has_event(front) ==
  /\ Len(blog) < MaxBridgeCalls
  /\ xhc_constructed
  /\ lifecycle # "Uninitialized"
  /\ blog' = Append(blog,
       BridgeCall("has_event", 0, "", IF front THEN "true" ELSE "false",
                  xhc_base, FALSE, lifecycle, lifecycle))
  /\ UNCHANGED <<xhc_constructed, xhc_base, lifecycle>>
  /\ UNCHANGED <<arenaVars, kbdVars, portVars, errVars, mouseVars, raceVars>>

\* cxx_xhci_controller_configure_connected_ports, as far as the lifecycle
\* goes: the sweep returns void and starts or stops nothing
cxx_xhci_controller_configure_connected_ports ==
  /\ Len(blog) < MaxBridgeCalls
  /\ xhc_constructed
  /\ lifecycle # "Uninitialized"
  /\ blog' = Append(blog,
       BridgeCall("configure_connected_ports", 0, "", "void", xhc_base,
                  FALSE, lifecycle, lifecycle))
  /\ UNCHANGED <<xhc_constructed, xhc_base, lifecycle>>
  /\ UNCHANGED <<arenaVars, kbdVars, portVars, errVars, mouseVars, raceVars>>

BridgeNext ==
  \/ \E b \in MmioBases : cxx_xhci_controller_new(b)
  \/ \E code \in ControllerResults : cxx_xhci_controller_initialize(code)
  \/ \E code \in ControllerResults : cxx_xhci_controller_run(code)
  \/ \E code \in ControllerResults : cxx_xhci_controller_process_event(code)
  \/ \E front \in BOOLEAN : cxx_xhci_controller_has_event(front)
  \/ cxx_xhci_controller_configure_connected_ports

\* ------------------------------------------------------------------------
\* The mouse driver behind cxx_xhci_hid_mouse_driver_set_default_observer
\* ------------------------------------------------------------------------
\* A uint8_t passed as an int8_t parameter without conversion
Int8Unsigned(b) == b

\* A byte of the report passed as an int8_t parameter of MouseObserverType
Int8(b) == IF b >= 128 THEN b - 256 ELSE b

\* The callback the kernel registers as the default observer of mice
KernelMouseObserver == Observer(ObserverCapacity + 3)

\* The reports the model feeds: buttons, displacement_x, displacement_y
MouseReports ==
  { <<0, 0, 0>>, <<1, 1, 255>>, <<0, 127, 128>>, <<3, 128, 127>>, <<1, 255, 0>> }

\* The mouse driver's OnDataReceived: the calls made, in order
MouseOnDataReceived(report, obs) ==
  [k \in 1..Len(obs) |->
     [f |-> obs[k], buttons |-> report[1],
      displacement_x |-> Int8(report[2]), displacement_y |-> Int8(report[3])]]

MouseInit ==
  /\ mouse_default_observer = 0                        \* std::function{}
  /\ mouse_observers = <<>>
  /\ mlog = <<>>

\* cxx_xhci_hid_mouse_driver_set_default_observer(observer)
SetMouseDefaultObserver(observer) ==
  /\ mouse_default_observer' = observer
  /\ UNCHANGED <<mouse_observers, mlog>>
  /\ UNCHANGED <<arenaVars, kbdVars, portVars, errVars, bridgeVars, raceVars>>

\* A mouse is attached: a new driver takes the place of the modelled one,
\* and the default observer registered by then is subscribed to it
NewMouseDriver ==
  /\ mouse_observers' = IF mouse_default_observer # 0
                        THEN <<mouse_default_observer>> ELSE <<>>
  /\ mlog' = <<>>
  /\ UNCHANGED mouse_default_observer
  /\ UNCHANGED <<arenaVars, kbdVars, portVars, errVars, bridgeVars, raceVars>>

\* A completed interrupt-in transfer of the mouse: OnDataReceived runs on
\* the report
OnMouseInterruptCompleted(report) ==
  /\ Len(mlog) < MaxReports
  /\ mlog' = Append(mlog,
       [report |-> report, observers |-> mouse_observers,
        calls |-> MouseOnDataReceived(report, mouse_observers)])
  /\ UNCHANGED <<mouse_default_observer, mouse_observers>>
  /\ UNCHANGED <<arenaVars, kbdVars, portVars, errVars, bridgeVars, raceVars>>

MouseNext ==
  \/ SetMouseDefaultObserver(KernelMouseObserver)
  \/ NewMouseDriver
  \/ \E r \in MouseReports : OnMouseInterruptCompleted(r)

\* ------------------------------------------------------------------------
\* usb/memory.cpp: AllocMem entered by two callers, one read or write of
\* alloc_ptr per step
\* ------------------------------------------------------------------------
Callers == {1, 2}

Other(c) == 3 - c

\* The requests of the two callers
RaceRequests ==
  { <<16, 16, 0>>, <<10, 4, 0>>, <<56, 8, 64>>, <<Modulus - 16, 1, 0>> }

InCall(c) == rpc[c] \notin {"idle", "done"}

\* The line a call goes to after the alignment step
AfterAlign(boundary) == IF boundary > 0 THEN "L30" ELSE "L36"

RaceInit ==
  /\ rpc = [c \in Callers |-> "idle"]
  /\ rreq = [c \in Callers |-> <<0, 0, 0>>]
  /\ rloc = [c \in Callers |-> [next_boundary |-> 0, p |-> 0, loaded |-> 0]]
  /\ rret = [c \in Callers |-> NULL]
  /\ roverlap = FALSE

\* SetMemoryPool before either caller has called AllocMem
RaceSetMemoryPool(pool_ptr, pool_size) ==
  LET s == PoolAfterSet(pool_ptr, pool_size, alloc_ptr)
  IN /\ \A c \in Callers : rpc[c] = "idle"
     /\ pool_base_ptr' = s.base
     /\ alloc_ptr' = s.ptr
     /\ memory_pool_size' = s.size
     /\ UNCHANGED <<hist, raceVars>>
     /\ UNCHANGED <<kbdVars, portVars, errVars, bridgeVars, mouseVars>>

\* Caller c enters AllocMem(size, alignment, boundary); line 26
RaceCall(c, size, alignment, boundary) ==
  /\ rpc[c] = "idle"
  /\ memory_pool_size > 0
  /\ rreq' = [rreq EXCEPT ![c] = <<size, alignment, boundary>>]
  /\ rpc' = [rpc EXCEPT ![c] = IF alignment > 0 THEN "L27r" ELSE AfterAlign(boundary)]
  /\ roverlap' = (roverlap \/ InCall(Other(c)))
  /\ UNCHANGED <<rloc, rret>>
  /\ UNCHANGED <<arenaVars, kbdVars, portVars, errVars, bridgeVars, mouseVars>>

\* line 27, the read of alloc_ptr in alloc_ptr = Ceil(alloc_ptr, alignment)
RaceL27r(c) ==
  /\ rpc[c] = "L27r"
  /\ rloc' = [rloc EXCEPT ![c].loaded = alloc_ptr]
  /\ rpc' = [rpc EXCEPT ![c] = "L27w"]
  /\ UNCHANGED <<rreq, rret, roverlap>>
  /\ UNCHANGED <<arenaVars, kbdVars, portVars, errVars, bridgeVars, mouseVars>>

\* line 27, the write
RaceL27w(c) ==
  /\ rpc[c] = "L27w"
  /\ alloc_ptr' = Ceil(rloc[c].loaded, rreq[c][2])
  /\ rpc' = [rpc EXCEPT ![c] = AfterAlign(rreq[c][3])]
  /\ UNCHANGED <<rreq, rloc, rret, roverlap>>
  /\ UNCHANGED <<pool_base_ptr, memory_pool_size, hist>>
  /\ UNCHANGED <<kbdVars, portVars, errVars, bridgeVars, mouseVars>>

\* line 30: next_boundary = Ceil(alloc_ptr, boundary)
RaceL30(c) ==
  /\ rpc[c] = "L30"
  /\ rloc' = [rloc EXCEPT ![c].next_boundary = Ceil(alloc_ptr, rreq[c][3])]
  /\ rpc' = [rpc EXCEPT ![c] = "L31"]
  /\ UNCHANGED <<rreq, rret, roverlap>>
  /\ UNCHANGED <<arenaVars, kbdVars, portVars, errVars, bridgeVars, mouseVars>>

\* line 31: if (next_boundary < alloc_ptr + size)
RaceL31(c) ==
  /\ rpc[c] = "L31"
  /\ rpc' = [rpc EXCEPT ![c] =
               IF rloc[c].next_boundary < Add(alloc_ptr, rreq[c][1])
               THEN "L32" ELSE "L36"]
  /\ UNCHANGED <<rreq, rloc, rret, roverlap>>
  /\ UNCHANGED <<arenaVars, kbdVars, portVars, errVars, bridgeVars, mouseVars>>

\* line 32: alloc_ptr = next_boundary
RaceL32(c) ==
  /\ rpc[c] = "L32"
  /\ alloc_ptr' = rloc[c].next_boundary
  /\ rpc' = [rpc EXCEPT ![c] = "L36"]
  /\ UNCHANGED <<rreq, rloc, rret, roverlap>>
  /\ UNCHANGED <<pool_base_ptr, memory_pool_size, hist>>
  /\ UNCHANGED <<kbdVars, portVars, errVars, bridgeVars, mouseVars>>

\* lines 36-38: the out-of-memory test, and return nullptr
RaceL36(c) ==
  /\ rpc[c] = "L36"
  /\ IF PoolExceeded(pool_base_ptr, memory_pool_size, alloc_ptr, rreq[c][1])
     THEN /\ rpc' = [rpc EXCEPT ![c] = "done"]
          /\ rret' = [rret EXCEPT ![c] = NULL]
     ELSE /\ rpc' = [rpc EXCEPT ![c] = "L40"]
          /\ UNCHANGED rret
  /\ UNCHANGED <<rreq, rloc, roverlap>>
  /\ UNCHANGED <<arenaVars, kbdVars, portVars, errVars, bridgeVars, mouseVars>>

\* line 40: const auto p = alloc_ptr
RaceL40(c) ==
  /\ rpc[c] = "L40"
  /\ rloc' = [rloc EXCEPT ![c].p = alloc_ptr]
  /\ rpc' = [rpc EXCEPT ![c] = "L41r"]
  /\ UNCHANGED <<rreq, rret, roverlap>>
  /\ UNCHANGED <<arenaVars, kbdVars, portVars, errVars, bridgeVars, mouseVars>>

\* line 41, the read of alloc_ptr in alloc_ptr += size
RaceL41r(c) ==
  /\ rpc[c] = "L41r"
  /\ rloc' = [rloc EXCEPT ![c].loaded = alloc_ptr]
  /\ rpc' = [rpc EXCEPT ![c] = "L41w"]
  /\ UNCHANGED <<rreq, rret, roverlap>>
  /\ UNCHANGED <<arenaVars, kbdVars, portVars, errVars, bridgeVars, mouseVars>>

\* line 41, the write, and line 42: return p
RaceL41w(c) ==
  /\ rpc[c] = "L41w"
  /\ alloc_ptr' = Add(rloc[c].loaded, rreq[c][1])
  /\ rret' = [rret EXCEPT ![c] = rloc[c].p]
  /\ rpc' = [rpc EXCEPT ![c] = "done"]
  /\ UNCHANGED <<rreq, rloc, roverlap>>
  /\ UNCHANGED <<pool_base_ptr, memory_pool_size, hist>>
  /\ UNCHANGED <<kbdVars, portVars, errVars, bridgeVars, mouseVars>>

RaceNext ==
  \/ \E c \in Pools : RaceSetMemoryPool(c[1], c[2])
  \/ \E c \in Callers, r \in RaceRequests : RaceCall(c, r[1], r[2], r[3])
  \/ \E c \in Callers : RaceL27r(c)
  \/ \E c \in Callers : RaceL27w(c)
  \/ \E c \in Callers : RaceL30(c)
  \/ \E c \in Callers : RaceL31(c)
  \/ \E c \in Callers : RaceL32(c)
  \/ \E c \in Callers : RaceL36(c)
  \/ \E c \in Callers : RaceL40(c)
  \/ \E c \in Callers : RaceL41r(c)
  \/ \E c \in Callers : RaceL41w(c)

\* ------------------------------------------------------------------------
\* Specifications
\* ------------------------------------------------------------------------
vars == <<arenaVars, kbdVars, portVars, errVars, bridgeVars, mouseVars, raceVars>>

Init ==
  /\ ArenaInit /\ KbdInit /\ PortsInit /\ ErrInit
  /\ BridgeInit /\ MouseInit /\ RaceInit

Next == ArenaNext

\* The memory arena
Spec == Init /\ [][Next]_vars

\* One keyboard driver
SpecKeyboard == Init /\ [][KeyboardNext]_vars

\* One call of cxx_xhci_controller_configure_connected_ports after another
SpecPorts == Init /\ [][PortsNext]_vars

\* Error objects
SpecError == Init /\ [][ErrorNext]_vars

\* Keyboards and the default observer of their class
SpecDefaultObserver == Init /\ [][DefaultObserverNext]_vars

\* The calls of the kernel into the controller bridge
SpecBridge == Init /\ [][BridgeNext]_vars

\* One mouse driver
SpecMouse == Init /\ [][MouseNext]_vars

\* Two callers of AllocMem, interleaved at each access of alloc_ptr
SpecRace == Init /\ [][RaceNext]_vars

\* ------------------------------------------------------------------------
\* Properties of the arena
\* ------------------------------------------------------------------------
\* The AllocMem calls made since SetMemoryPool
Allocs == SelectSeq(hist, LAMBDA e : e.op = "AllocMem")

AllSucceeded == \A i \in 1..Len(Allocs) : Allocs[i].ret # NULL

\* C1: after SetMemoryPool, in a sequence of AllocMem calls that all succeed
\* the returned addresses are strictly increasing in call order, each is a
\* multiple of the alignment its call asked for, and the ranges [p, p+size)
\* of two calls do not overlap. Stated for the calls of non-zero size (two
\* empty requests in a row return one address twice).
C1_IncreasingAlignedDisjoint ==
  (Configured /\ AllSucceeded) =>
    LET allocs == SelectSeq(Allocs, LAMBDA e : e.size > 0)
    IN /\ \A i, j \in 1..Len(allocs) : i < j => allocs[i].ret < allocs[j].ret
       /\ \A i \in 1..Len(allocs) :
            allocs[i].alignment > 0 => allocs[i].ret % allocs[i].alignment = 0
       /\ \A i, j \in 1..Len(allocs) :
            i < j => \/ allocs[i].ret + allocs[i].size <= allocs[j].ret
                     \/ allocs[j].ret + allocs[j].size <= allocs[i].ret

\* C2: AllocMem returns null if and only if the adjusted request would end
\* past base+capacity, and every address a successful AllocMem returns lies
\* in [base, base+capacity), for every size and every earlier state.
C2_FailsIffExceedsAndInPool ==
  Configured =>
    \A i \in 1..Len(Allocs) :
      LET e == Allocs[i]
          q == Adjusted(e.was, e.size, e.alignment, e.boundary)
      IN /\ (e.ret = NULL) <=> (q + e.size > pool_base_ptr + memory_pool_size)
         /\ e.ret # NULL =>
              (pool_base_ptr <= e.ret /\ e.ret < pool_base_ptr + memory_pool_size)

\* alloc_ptr after the i-th entry of hist
PtrAfter(i) == IF i = Len(hist) THEN alloc_ptr ELSE hist[i + 1].was

\* C5: after SetMemoryPool and any AllocMem / FreeMem calls, successful or
\* failed, alloc_ptr never decreased from one call to the next and
\* base <= alloc_ptr <= base+capacity.
C5_OffsetMonotoneAndBounded ==
  Configured =>
    /\ \A i \in 2..Len(hist) : hist[i].was <= PtrAfter(i)
    /\ pool_base_ptr <= alloc_ptr
    /\ alloc_ptr <= pool_base_ptr + memory_pool_size

IsAlloc(e, size, alignment, boundary) ==
  /\ e.op = "AllocMem"
  /\ e.size = size /\ e.alignment = alignment /\ e.boundary = boundary

\* hist starts with SetMemoryPool(0x1000, 256) followed by the first n calls
\* of AllocMem(16,16,0), AllocMem(10,4,0), AllocMem(250,1,0)
Scenario(n) ==
  /\ Configured /\ hist[1].p = 4096 /\ hist[1].size = 256
  /\ Len(hist) >= n + 1
  /\ n >= 1 => IsAlloc(hist[2], 16, 16, 0)
  /\ n >= 2 => IsAlloc(hist[3], 10, 4, 0)
  /\ n >= 3 => IsAlloc(hist[4], 250, 1, 0)

\* C8: from SetMemoryPool(0x1000, 256), AllocMem(16,16,0) returns 0x1000,
\* then AllocMem(10,4,0) returns 0x1010, then AllocMem(250,1,0) fails because
\* it would end past the pool bound 0x1100.
C8_EndToEnd ==
  /\ Scenario(1) => hist[2].ret = 4096
  /\ Scenario(2) => hist[3].ret = 4112
  /\ Scenario(3) => /\ hist[4].ret = NULL
                    /\ hist[4].was + 250 > 4352
                    /\ pool_base_ptr + memory_pool_size = 4352

C8_Witness == Scenario(3) /\ hist[4].ret = NULL

\* alloc_ptr before and after each of the first k AllocMem calls of hist when
\* they are made, with no other call in between, on an arena freshly
\* configured as (base, pool_size): k+1 offsets
RECURSIVE AllocsOnly(_, _, _, _)
AllocsOnly(base, pool_size, allocs, k) ==
  IF k = 0 THEN <<base>>
  ELSE LET before == AllocsOnly(base, pool_size, allocs, k - 1)
       IN Append(before,
                 AllocNext(base, pool_size, before[k],
                           allocs[k].size, allocs[k].alignment, allocs[k].boundary))

\* C9: FreeMem(p) leaves the pool base, the capacity and the offset as they
\* were, for every p: each AllocMem of a sequence with FreeMem calls in it
\* returns what it returns in the same sequence without them, and the offset
\* is where that sequence leaves it.
C9_FreeMemNoOp ==
  Configured =>
    LET allocs == Allocs
        ptrs == AllocsOnly(hist[1].p, hist[1].size, allocs, Len(allocs))
    IN /\ pool_base_ptr = hist[1].p /\ memory_pool_size = hist[1].size
       /\ \A i \in 1..Len(hist) : hist[i].op = "FreeMem" => PtrAfter(i) = hist[i].was
       /\ \A k \in 1..Len(allocs) :
            allocs[k].ret =
              AllocResult(hist[1].p, hist[1].size, ptrs[k],
                          allocs[k].size, allocs[k].alignment, allocs[k].boundary)
       /\ alloc_ptr = ptrs[Len(allocs) + 1]

\* an address AllocMem returned is freed and a later AllocMem succeeds
C9_Witness ==
  /\ Configured
  /\ \E i, j, k \in 1..Len(hist) :
       /\ i < j /\ j < k
       /\ hist[i].op = "AllocMem" /\ hist[i].ret # NULL /\ hist[i].size > 0
       /\ hist[j].op = "FreeMem" /\ hist[j].p = hist[i].ret
       /\ hist[k].op = "AllocMem" /\ hist[k].ret # NULL

\* alloc_ptr after each of the first i entries of hist, computed from an
\* arena that SetMemoryPool(hist[1].p, hist[1].size) configured for the first
\* time: i offsets
RECURSIVE FreshRun(_)
FreshRun(i) ==
  IF i <= 1 THEN <<hist[1].p>>
  ELSE LET before == FreshRun(i - 1)
       IN Append(before,
                 IF hist[i].op = "AllocMem"
                 THEN AllocNext(hist[1].p, hist[1].size, before[i - 1],
                                hist[i].size, hist[i].alignment, hist[i].boundary)
                 ELSE FreeNext(before[i - 1], hist[i].p))

\* C10: SetMemoryPool(base, size), called in any arena state, leaves
\* pool base = base, capacity = size, offset = base, and the calls that
\* follow return what they return on an arena configured for the first time.
C10_SetMemoryPoolReplaces ==
  Configured =>
    LET fresh == FreshRun(Len(hist))
    IN /\ pool_base_ptr = hist[1].p /\ memory_pool_size = hist[1].size
       /\ PtrAfter(1) = hist[1].p
       /\ \A i \in 2..Len(hist) :
            /\ PtrAfter(i) = fresh[i]
            /\ hist[i].op = "AllocMem" =>
                 hist[i].ret = AllocResult(hist[1].p, hist[1].size, fresh[i - 1],
                                           hist[i].size, hist[i].alignment,
                                           hist[i].boundary)

\* an exhausted arena is configured again and the first AllocMem returns its base
C10_Witness ==
  /\ Configured /\ hist[1].was = "exhausted"
  /\ Len(hist) >= 2 /\ hist[2].op = "AllocMem" /\ hist[2].ret = hist[1].p
  /\ hist[2].size > 0

IsPowerOfTwo(n) == \E k \in 0..(WordBits - 1) : n = 2 ^ k

\* Some multiple of boundary lies strictly between p and p+size
CrossesBoundary(p, size, boundary) ==
  \E m \in (p + 1)..(p + size - 1) : m % boundary = 0

\* The successful AllocMem calls of hist with boundary > 0 and 0 < size <= boundary
BoundaryAllocs ==
  SelectSeq(Allocs, LAMBDA e : e.ret # NULL /\ e.boundary > 0
                               /\ 0 < e.size /\ e.size <= e.boundary)

\* The boundary step of the call moved the offset
SkipMoved(e) ==
  Adjusted(e.was, e.size, e.alignment, e.boundary) # AlignStep(e.was, e.alignment)

\* The range of the call holds no multiple of its boundary strictly inside,
\* and the offset was moved only when the range at the aligned offset would
\* have held one
WithinOneBlock(e) ==
  /\ ~CrossesBoundary(e.ret, e.size, e.boundary)
  /\ SkipMoved(e) =>
       CrossesBoundary(AlignStep(e.was, e.alignment), e.size, e.boundary)

\* C15 as stated: for every successful AllocMem(size, alignment, boundary)
\* with boundary > 0 and 0 < size <= boundary, the returned range [p, p+size)
\* holds no multiple of boundary strictly between p and p+size, and the offset
\* is moved to the next boundary only when the range would otherwise cross one.
C15_WithinOneBoundaryBlock ==
  \A i \in 1..Len(BoundaryAllocs) : WithinOneBlock(BoundaryAllocs[i])

\* C15 as amended: the same, for every successful AllocMem whose boundary is
\* a power of two.
C15_WithinOneBlockPowerOfTwo ==
  \A i \in 1..Len(BoundaryAllocs) :
    IsPowerOfTwo(BoundaryAllocs[i].boundary) => WithinOneBlock(BoundaryAllocs[i])

\* a successful call whose range at the aligned offset would have crossed a
\* boundary was moved to the next boundary
C15_Witness ==
  \E i \in 1..Len(BoundaryAllocs) :
    /\ IsPowerOfTwo(BoundaryAllocs[i].boundary)
    /\ SkipMoved(BoundaryAllocs[i])
    /\ BoundaryAllocs[i].ret % BoundaryAllocs[i].boundary = 0

\* C16: a failed AllocMem leaves the arena as it was: the offset after a call
\* that returns null equals the offset before it, so a request that would
\* have succeeded right before the failed call succeeds right after it, with
\* the same address.
C16_FailedAllocLeavesOffset ==
  Configured =>
    \A i \in 2..Len(hist) :
      (hist[i].op = "AllocMem" /\ hist[i].ret = NULL) =>
        /\ PtrAfter(i) = hist[i].was
        /\ \A r \in Requests :
             LET before == AllocResult(pool_base_ptr, memory_pool_size,
                                       hist[i].was, r[1], r[2], r[3])
                 after == AllocResult(pool_base_ptr, memory_pool_size,
                                      PtrAfter(i), r[1], r[2], r[3])
             IN before # NULL => after = before

\* C17: when alignment and boundary are both powers of two, in either order,
\* the offset AllocMem places the request at, and so the address it returns,
\* is a multiple of alignment, also when the boundary step moved the offset.
C17_AlignedAfterBoundarySkip ==
  \A i \in 1..Len(Allocs) :
    LET e == Allocs[i]
    IN (IsPowerOfTwo(e.alignment) /\ IsPowerOfTwo(e.boundary)) =>
         /\ Adjusted(e.was, e.size, e.alignment, e.boundary) % e.alignment = 0
         /\ e.ret % e.alignment = 0

\* a successful call with alignment > 1 whose boundary step moved the offset,
\* and a successful call whose alignment is larger than its boundary
C17_Witness ==
  \E i \in 1..Len(Allocs) :
    /\ IsPowerOfTwo(Allocs[i].alignment) /\ IsPowerOfTwo(Allocs[i].boundary)
    /\ Allocs[i].alignment > 1
    /\ SkipMoved(Allocs[i])
    /\ Allocs[i].ret # NULL
    /\ \E j \in 1..Len(Allocs) :
         /\ IsPowerOfTwo(Allocs[j].boundary)
         /\ Allocs[j].alignment > Allocs[j].boundary
         /\ Allocs[j].ret # NULL

\* ------------------------------------------------------------------------
\* Properties of the keyboard driver
\* ------------------------------------------------------------------------
\* The non-zero key values in bytes [2,8) of a report
Keys(r) == {Byte(r, i) : i \in 2..(ReportLen - 1)} \ {0}

\* The calls of the n-th OnDataReceived made through slot s with keycode K
CallsFor(n, s, K) ==
  {k \in 1..Len(klog[n].calls) :
     klog[n].calls[k].slot = s /\ klog[n].calls[k].keycode = K}

\* C3: with report N-1 in the previous buffer when report N is processed, a
\* key K in bytes [2,8) of report N and not of report N-1 is notified to each
\* subscribed observer exactly once, with (byte 0 of report N, K); a key in
\* both reports is not notified; a key that appears, disappears and reappears
\* over three consecutive reports is notified exactly twice in total.
C3_OneNotificationPerNewKey ==
  ~oob_write =>
    /\ \A n \in 2..Len(klog) :
         klog[n].prev = klog[n - 1].report =>
           \A K \in Keys(klog[n].report) :
             IF K \in Keys(klog[n - 1].report)
             THEN \A s \in 0..(klog[n].n - 1) : CallsFor(n, s, K) = {}
             ELSE \A s \in 0..(klog[n].n - 1) :
                    /\ Cardinality(CallsFor(n, s, K)) = 1
                    /\ \A k \in CallsFor(n, s, K) :
                         klog[n].calls[k].modifier = Byte(klog[n].report, 0)
    /\ \A n \in 3..Len(klog) :
         \A K \in Keys(klog[n].report) \cap Keys(klog[n - 2].report) :
           (K \notin Keys(klog[n - 1].report) /\ K \notin Keys(klog[n - 2].prev)) =>
             \A s \in 0..(klog[n - 2].n - 1) :
               Cardinality(CallsFor(n - 2, s, K)) + Cardinality(CallsFor(n - 1, s, K))
                 + Cardinality(CallsFor(n, s, K)) = 2

\* C6: whatever SubscribeKeyPush calls are made on a driver, num_observers_
\* never exceeds the capacity of observers_ and no subscription writes a
\* slot outside the array.
C6_ObserversWithinCapacity ==
  num_observers_ <= ObserverCapacity /\ ~oob_write

\* C11: once a keyboard default observer is registered, every notification
\* of a newly pressed key that a driver's OnDataReceived produces calls that
\* observer with (modifier, keycode) before OnDataReceived returns, whether
\* it was registered before or after the driver was created.
C11_DefaultObserverInvoked ==
  \A n \in 1..Len(klog) :
    klog[n].default # 0 =>
      \A i \in 2..(ReportLen - 1) :
        NewlyPressed(klog[n].report, klog[n].prev, i) =>
          \E k \in 1..Len(klog[n].calls) :
            /\ klog[n].calls[k].f = klog[n].default
            /\ klog[n].calls[k].modifier = Byte(klog[n].report, 0)
            /\ klog[n].calls[k].keycode = Byte(klog[n].report, i)

\* The calls the claim expects from byte i of the report on: for each newly
\* pressed key, in the order of the bytes, one call per subscribed observer,
\* in the order of the subscriptions
RECURSIVE ExpectedCallsFrom(_, _, _, _)
ExpectedCallsFrom(report, prev, subs, i) ==
  IF i >= ReportLen THEN <<>>
  ELSE (IF Byte(report, i) # 0
           /\ \A j \in 2..(ReportLen - 1) : Byte(prev, j) # Byte(report, i)
        THEN [k \in 1..Len(subs) |-> <<subs[k], Byte(report, 0), Byte(report, i)>>]
        ELSE <<>>)
       \o ExpectedCallsFrom(report, prev, subs, i + 1)

\* C18: within one OnDataReceived the newly pressed keys are notified in
\* ascending order of their byte position (2 to 7), for each of them the
\* subscribed observers are called in the order they were subscribed, each
\* with byte 0 of the current report as modifier, and OnDataReceived returns
\* success after these calls.
C18_NotificationOrder ==
  \A n \in 1..Len(klog) :
    /\ [k \in 1..Len(klog[n].calls) |->
          <<klog[n].calls[k].f, klog[n].calls[k].modifier, klog[n].calls[k].keycode>>]
       = ExpectedCallsFrom(klog[n].report, klog[n].prev, klog[n].subscribed, 2)
    /\ klog[n].ret = "kSuccess"

\* The report differs from the previous one in bytes 0 and 1 at most
OnlyModifierChanged(cur, prev) ==
  \A i \in 2..(ReportLen - 1) : Byte(cur, i) = Byte(prev, i)

\* Every key byte is as in the previous report or became zero
OnlyReleased(cur, prev) ==
  \A i \in 2..(ReportLen - 1) : Byte(cur, i) \in {Byte(prev, i), 0}

\* The key bytes are those of the previous report in some order
Permuted(cur, prev) ==
  \A v \in {Byte(cur, i) : i \in 2..(ReportLen - 1)}
           \cup {Byte(prev, i) : i \in 2..(ReportLen - 1)} :
    Cardinality({i \in 2..(ReportLen - 1) : Byte(cur, i) = v})
      = Cardinality({i \in 2..(ReportLen - 1) : Byte(prev, i) = v})

\* C19: a report that differs from the previous report only in bytes 0 and
\* 1, only by key bytes that became zero, or only by a permutation of the
\* same key bytes within positions 2..7 produces no notification.
C19_NoNotificationWithoutNewKey ==
  \A n \in 1..Len(klog) :
    (\/ OnlyModifierChanged(klog[n].report, klog[n].prev)
     \/ OnlyReleased(klog[n].report, klog[n].prev)
     \/ Permuted(klog[n].report, klog[n].prev)) =>
      klog[n].calls = <<>>

\* a driver with a subscribed observer got a report with its two keys
\* swapped and then a report with all keys released
C19_Witness ==
  /\ ~oob_write /\ num_observers_ >= 1
  /\ \E n \in 2..Len(klog) :
       /\ klog[n].n >= 1
       /\ Permuted(klog[n].report, klog[n].prev)
       /\ ~OnlyReleased(klog[n].report, klog[n].prev)
       /\ Keys(klog[n].report) # {}
  /\ \E n \in 2..Len(klog) :
       /\ klog[n].n >= 1
       /\ OnlyReleased(klog[n].report, klog[n].prev)
       /\ Keys(klog[n].prev) # {} /\ Keys(klog[n].report) = {}

\* ------------------------------------------------------------------------
\* Properties of cxx_xhci_controller_configure_connected_ports
\* ------------------------------------------------------------------------
\* The ports of the entries of port_log that are of one kind, in order
PortsOf(what) ==
  LET sel == SelectSeq(port_log, LAMBDA e : e.what = what)
  IN [k \in 1..Len(sel) |-> sel[k].port]

\* The ports 1..n that satisfy Keep, in ascending order
Ascending(n, Keep(_)) == SelectSeq([k \in 1..n |-> k], Keep)

\* The ports whose configuration failed
FailedPorts ==
  {port_log[k].port : k \in {j \in 1..Len(port_log) :
      port_log[j].what = "ConfigurePort" /\ port_log[j].arg # "kSuccess"}}

\* C4: the call visits the ports 1..MaxPorts in ascending order, each once,
\* attempts ConfigurePort on exactly the connected ones, whichever of them
\* fail, logs one error per failed port and returns after port MaxPorts.
C4_SweepVisitsEveryPort ==
  /\ port_pc = "loop" =>
       /\ port_i \in 1..(max_ports + 1)
       /\ PortsOf("Log kDebug") = Ascending(port_i - 1, LAMBDA k : TRUE)
  /\ port_pc = "returned" =>
       /\ port_i = max_ports + 1
       /\ PortsOf("Log kDebug") = Ascending(max_ports, LAMBDA k : TRUE)
       /\ PortsOf("ConfigurePort") = Ascending(max_ports, LAMBDA k : is_connected[k])
       /\ PortsOf("Log kError") = Ascending(max_ports, LAMBDA k : k \in FailedPorts)

\* the first port fails and the call returns having attempted the last port
C4_Witness ==
  /\ port_pc = "returned" /\ max_ports >= 3
  /\ 1 \in FailedPorts
  /\ \E k \in 1..Len(port_log) :
       port_log[k].what = "ConfigurePort" /\ port_log[k].port = max_ports

\* ------------------------------------------------------------------------
\* Properties of the controller bridge
\* ------------------------------------------------------------------------
Succeeded(n, call) == blog[n].call = call /\ blog[n].result = "kSuccess"

FailedCall(n) ==
  blog[n].call \in {"initialize", "run"} /\ blog[n].result # "kSuccess"

\* The place of a lifecycle state in Uninitialized -> Initialized -> Running
Rank(state) ==
  CASE state = "Uninitialized" -> 0
    [] state = "Initialized" -> 1
    [] state = "Running" -> 2
    [] OTHER -> 3

\* C12: the bridge lifecycle only moves forward Uninitialized -> Initialized
\* -> Running; the controller is Running only after a successful Initialize
\* followed by a successful Run; after a failed Initialize or Run no later
\* bridge call makes it Initialized or Running; and the failure is reported
\* to the caller.
C12_LifecycleForwardOnly ==
  /\ \A n \in 1..Len(blog) : Rank(blog[n].before) <= Rank(blog[n].after)
  /\ \A n \in 1..Len(blog) :
       blog[n].after = "Running" =>
         \E i, j \in 1..n :
           i < j /\ Succeeded(i, "initialize") /\ Succeeded(j, "run")
  /\ \A i, j \in 1..Len(blog) :
       (i < j /\ FailedCall(i)) => blog[j].after \notin {"Initialized", "Running"}
  /\ \A n \in 1..Len(blog) : FailedCall(n) => blog[n].returned = blog[n].result

\* The cxx_xhci_controller_new calls made
NewCalls == SelectSeq(blog, LAMBDA e : e.call = "new")

\* C13: for any sequence of cxx_xhci_controller_new calls with any mmio
\* bases, the controller is constructed exactly once, with the base of the
\* first call, every call returns that same instance, and the handle
\* returned for a base is the controller for that base.
C13_OneControllerPerBase ==
  \A k \in 1..Len(NewCalls) :
    /\ NewCalls[k].constructs <=> (k = 1)
    /\ NewCalls[k].handle = NewCalls[1].arg
    /\ NewCalls[k].handle = NewCalls[1].handle
    /\ NewCalls[k].handle = NewCalls[k].arg

BothSucceeded ==
  \A c \in Callers : rpc[c] = "done" /\ rret[c] # NULL /\ rreq[c][1] > 0

\* The ranges handed to the two callers overlap
RangesOverlap ==
  /\ rret[1] < rret[2] + rreq[2][1]
  /\ rret[2] < rret[1] + rreq[1][1]

\* The two calls ran interleaved, neither request is large enough to wrap,
\* and both callers were handed the same bytes
InterleavedOverlap ==
  /\ BothSucceeded /\ roverlap /\ RangesOverlap
  /\ \A c \in Callers : rreq[c][1] <= memory_pool_size

\* C20: when each AllocMem call runs as a whole, one after the other, the
\* ranges handed to the two callers never overlap (they can when the reads
\* and writes of alloc_ptr of the two calls interleave).
C20_SerialCallsDisjoint ==
  (BothSucceeded /\ ~roverlap) => ~RangesOverlap

\* ------------------------------------------------------------------------
\* Properties of Error
\* ------------------------------------------------------------------------
\* C7: for every code an Error can be constructed with, the boolean
\* conversion is false exactly when the code is kSuccess, Cause() returns the
\* code given to the constructor, and Name() indexes code_names_ within its
\* 16 entries and returns a non-empty name.
C7_ErrorAccessorsTotal ==
  /\ ErrorBool(err) <=> (err_made_with # kSuccess)
  /\ Cause(err) = err_made_with
  /\ err.code_ \in 0..(Len(code_names_) - 1)
  /\ err_name # "?" => err_name \in {code_names_[k] : k \in 1..Len(code_names_)}

====
